---- MODULE Spec2Model ----
(***************************************************************************)
(* render-tmpl: renderTmpl(tmplEl, state, subTmpl) clones the content of a *)
(* <template>, resolves the data-s-show / data-s-text / data-s-attr(s)     *)
(* directives of the clone against a flat state object and appends what    *)
(* the subTmpl callback returns to the data-s-slot element.                *)
(*                                                                         *)
(* JavaScript strings are sequences of tokens.  A token is one character,  *)
(* except that the five characters "$ctx." are one token (Ctx): the only   *)
(* thing the code does with them is String.prototype.replace("$ctx.", ""). *)
(* The DOM is a tree of node records; the store maps object references to  *)
(* the document fragments they denote.                                     *)
(***************************************************************************)
EXTENDS Integers, Sequences, FiniteSets, TLC

\* ------------------------------------------------------------------ bounds
\* The most leading negation markers of a data-s-show expression
MaxNeg == 3
\* The most pairs of a data-s-attr(s) value
MaxPairs == 2
\* The most items of the array a subTmpl callback returns
MaxSub == 2

\* ------------------------------------------------------- JavaScript values
Ctx == "$ctx."
Bang == "!"
Comma == ","
Eq == "="

\* The value undefined: a missing property, a missing attribute, a missing
\* array element.  It is no string: no sequence of real tokens equals it.
Undefined == <<"<undefined>">>
EmptyStr == <<>>

\* String(undefined), as setAttribute converts its DOMString argument
UndefinedText == <<"undefined">>

\* Boolean(v) of a string or undefined
Truthy(v) == v # Undefined /\ v # EmptyStr

\* a || b
OrElse(a, b) == IF Truthy(a) THEN a ELSE b

\* The first index of token t in str, 0 when there is none
RECURSIVE IndexFrom(_, _, _)
IndexFrom(str, t, i) ==
    IF i > Len(str) THEN 0
    ELSE IF str[i] = t THEN i
    ELSE IndexFrom(str, t, i + 1)

IndexOf(str, t) == IndexFrom(str, t, 1)

\* str.replace(t, ""): the first occurrence of t is removed, wherever it is
ReplaceFirst(str, t) ==
    LET i == IndexOf(str, t)
    IN IF i = 0 THEN str
       ELSE SubSeq(str, 1, i - 1) \o SubSeq(str, i + 1, Len(str))

\* str.split(sep): the pieces between the occurrences of sep ("".split(sep)
\* is the one-element array [""])
RECURSIVE Split(_, _)
Split(str, sep) ==
    LET i == IndexOf(str, sep)
    IN IF i = 0 THEN <<str>>
       ELSE <<SubSeq(str, 1, i - 1)>> \o Split(SubSeq(str, i + 1, Len(str)), sep)

\* arr[i] of a JavaScript array (1-based here)
At(arr, i) == IF i <= Len(arr) THEN arr[i] ELSE Undefined

\* state[key]
Lookup(state, key) == IF key \in DOMAIN state THEN state[key] ELSE Undefined

\* -------------------------------------------------------------------- DOM
StyleName == <<"style">>
None == <<"none">>
NoAttributes == [n \in {} |-> EmptyStr]

\* A text node
TextNode(data) ==
    [nodeType |-> "text", data |-> data,
     sShow |-> Undefined, sText |-> Undefined, sAttr |-> Undefined,
     sAttrs |-> Undefined, sSlot |-> Undefined,
     display |-> EmptyStr, attributes |-> NoAttributes, childNodes |-> <<>>]

\* An element as the template author writes it: its data-s-* attributes
\* (el.dataset), no inline style, no other attribute
Element(show, text, attr, attrs, slot, children) ==
    [nodeType |-> "element", data |-> EmptyStr,
     sShow |-> show, sText |-> text, sAttr |-> attr,
     sAttrs |-> attrs, sSlot |-> slot,
     display |-> EmptyStr, attributes |-> NoAttributes, childNodes |-> children]

\* A DocumentFragment (the content of a template, the clone of it)
Fragment(children) ==
    [nodeType |-> "fragment", data |-> EmptyStr,
     sShow |-> Undefined, sText |-> Undefined, sAttr |-> Undefined,
     sAttrs |-> Undefined, sSlot |-> Undefined,
     display |-> EmptyStr, attributes |-> NoAttributes, childNodes |-> children]

IsElement(n) == n.nodeType = "element"

\* node.textContent (getter): the text of the descendants, in document order
RECURSIVE TextContent(_)
RECURSIVE TextOfNodes(_)
TextOfNodes(nodes) ==
    IF nodes = <<>> THEN EmptyStr
    ELSE TextContent(Head(nodes)) \o TextOfNodes(Tail(nodes))

TextContent(n) ==
    IF n.nodeType = "text" THEN n.data ELSE TextOfNodes(n.childNodes)

\* el.textContent = v: the children are replaced by one text node, or by
\* nothing when v is the empty string or null/undefined (the attribute is a
\* nullable DOMString)
SetTextContent(el, v) ==
    [el EXCEPT !.childNodes =
        IF v = EmptyStr \/ v = Undefined THEN <<>> ELSE <<TextNode(v)>>]

\* The display an inline style text declares: no value of the model's
\* states is a CSS declaration of display
InlineDisplay(v) == EmptyStr

WithAttribute(attributes, name, v) ==
    [n \in DOMAIN attributes \cup {name} |->
        IF n = name THEN v ELSE attributes[n]]

\* setAttribute as a DOM that rebuilds the element's attributes would do it:
\* the inline style is reset whatever the name
SetAttributeResetsStyle(el, name, value) ==
    LET v == IF value = Undefined THEN UndefinedText ELSE value
    IN [el EXCEPT !.attributes = WithAttribute(@, name, v),
                  !.display = EmptyStr]

\* el.setAttribute(name, value): value is converted to a string; writing
\* the style attribute replaces the inline style of the element
SetAttribute(el, name, value) ==
    LET v == IF value = Undefined THEN UndefinedText ELSE value
    IN [el EXCEPT !.attributes = WithAttribute(@, name, v),
                  !.display = IF name = StyleName THEN InlineDisplay(v) ELSE @]

\* setAttribute throws InvalidCharacterError on a name that is no XML name
ValidName(name) ==
    /\ name # Undefined
    /\ name # EmptyStr
    /\ \A i \in 1..Len(name) : name[i] \notin {Ctx, Bang, Comma, Eq}

\* el.style.display = d: the inline style is updated, and the style
\* attribute with it when a declaration was added or removed
SetDisplay(el, d) ==
    IF d = None
    THEN [el EXCEPT !.display = None,
                    !.attributes = WithAttribute(@, StyleName, <<"display: none;">>)]
    ELSE IF el.display = None
    THEN [el EXCEPT !.display = EmptyStr,
                    !.attributes = WithAttribute(@, StyleName, EmptyStr)]
    ELSE el

\* ------------------------------------------------- replaceStateDirectives
\* const clearPrefix = (str) => str.replace("$ctx.", "")
clearPrefix(str) == ReplaceFirst(str, Ctx)

\* let negationsCount = 0; for (const char of valueExpr) { ... break }
RECURSIVE CountNegations(_, _)
CountNegations(valueExpr, i) ==
    IF i <= Len(valueExpr) /\ valueExpr[i] = Bang
    THEN CountNegations(valueExpr, i + 1)
    ELSE i - 1

negationsCount(valueExpr) == CountNegations(valueExpr, 1)

\* valueExpr.slice(negationsCount)
Slice(str, n) == SubSeq(str, n + 1, Len(str))

\* The body of the data-s-show forEach: the display the element ends with
ShowElement(el, state) ==
    LET stripped == clearPrefix(el.sShow)
        n == negationsCount(stripped)
        valueExpr == Slice(stripped, n)
        evalValue == Truthy(Lookup(state, valueExpr))
    IN IF (IF n % 2 = 0 THEN ~evalValue ELSE evalValue)
       THEN SetDisplay(el, None)
       ELSE SetDisplay(el, EmptyStr)

\* The body of the data-s-text forEach
TextElement(el, state) ==
    SetTextContent(el, Lookup(state, clearPrefix(el.sText)))

\* One pair of a data-s-attr(s) value: [attrName, attrValueExpr] =
\* pair.split("="); clearPrefix(undefined) is a TypeError and setAttribute
\* of an invalid name an InvalidCharacterError
AttrPair(el, pair, state) ==
    LET parts == Split(pair, Eq)
        attrName == At(parts, 1)
        attrValueExpr == At(parts, 2)
    IN IF attrValueExpr = Undefined \/ ~ValidName(attrName)
       THEN [threw |-> TRUE, el |-> el]
       ELSE [threw |-> FALSE,
             el |-> SetAttribute(el, attrName,
                                 Lookup(state, clearPrefix(attrValueExpr)))]

\* for (const pair of ...split(",")): left to right, up to the first throw
RECURSIVE AttrPairs(_, _, _)
AttrPairs(el, pairs, state) ==
    IF pairs = <<>> THEN [threw |-> FALSE, el |-> el]
    ELSE LET r == AttrPair(el, Head(pairs), state)
         IN IF r.threw THEN r ELSE AttrPairs(r.el, Tail(pairs), state)

\* The body of the data-s-attr / data-s-attrs forEach:
\* (el.dataset.sAttr || el.dataset.sAttrs).split(","); undefined.split is a
\* TypeError
AttrElement(el, state) ==
    LET value == OrElse(el.sAttr, el.sAttrs)
    IN IF value = Undefined
       THEN [threw |-> TRUE, el |-> el]
       ELSE AttrPairs(el, Split(value, Comma), state)

\* querySelectorAll("[data-s-show]").forEach over the subtree
RECURSIVE ShowNodes(_, _)
ShowNodes(nodes, state) ==
    IF nodes = <<>> THEN <<>>
    ELSE LET n == Head(nodes)
             n1 == IF IsElement(n) /\ n.sShow # Undefined
                   THEN ShowElement(n, state) ELSE n
             n2 == [n1 EXCEPT !.childNodes = ShowNodes(@, state)]
         IN <<n2>> \o ShowNodes(Tail(nodes), state)

\* querySelectorAll("[data-s-text]").forEach over the subtree: setting the
\* text of an element removes its descendants from the fragment
RECURSIVE TextNodes(_, _)
TextNodes(nodes, state) ==
    IF nodes = <<>> THEN <<>>
    ELSE LET n == Head(nodes)
             n1 == IF IsElement(n) /\ n.sText # Undefined
                   THEN TextElement(n, state)
                   ELSE [n EXCEPT !.childNodes = TextNodes(@, state)]
         IN <<n1>> \o TextNodes(Tail(nodes), state)

\* querySelectorAll("[data-s-attr],[data-s-attrs]").forEach over the
\* subtree, in document order, up to the first throw: what was written
\* before it stays written
RECURSIVE AttrNodes(_, _)
AttrNodes(nodes, state) ==
    IF nodes = <<>> THEN [threw |-> FALSE, nodes |-> <<>>]
    ELSE LET n == Head(nodes)
             own == IF IsElement(n) /\ (n.sAttr # Undefined \/ n.sAttrs # Undefined)
                    THEN AttrElement(n, state)
                    ELSE [threw |-> FALSE, el |-> n]
             sub == IF own.threw THEN [threw |-> TRUE, nodes |-> own.el.childNodes]
                    ELSE AttrNodes(own.el.childNodes, state)
             n1 == [own.el EXCEPT !.childNodes = sub.nodes]
             rest == IF sub.threw THEN [threw |-> TRUE, nodes |-> Tail(nodes)]
                     ELSE AttrNodes(Tail(nodes), state)
         IN [threw |-> rest.threw, nodes |-> <<n1>> \o rest.nodes]

\* One directive class applied to a fragment that has not thrown yet
DirectiveClass(class, r, state) ==
    IF r.threw THEN r
    ELSE IF class = "show"
    THEN [threw |-> FALSE, nodes |-> ShowNodes(r.nodes, state)]
    ELSE IF class = "text"
    THEN [threw |-> FALSE, nodes |-> TextNodes(r.nodes, state)]
    ELSE AttrNodes(r.nodes, state)

\* The directive classes applied in the given order
RECURSIVE ResolveInOrder(_, _, _)
ResolveInOrder(order, r, state) ==
    IF order = <<>> THEN r
    ELSE ResolveInOrder(Tail(order), DirectiveClass(Head(order), r, state), state)

\* The order of the three querySelectorAll calls
ClassOrder == <<"show", "text", "attr">>

\* replaceStateDirectives(tmpl, state): the fragment as it is left, and
\* whether the call threw
replaceStateDirectives(tmpl, state) ==
    LET r == ResolveInOrder(ClassOrder, [threw |-> FALSE, nodes |-> tmpl.childNodes], state)
    IN [threw |-> r.threw, node |-> [tmpl EXCEPT !.childNodes = r.nodes]]

\* -------------------------------------------------------------- renderTmpl
\* renderTmpl without the cloneNode call: tmpl is tmplEl.content itself
cloneNodeSame(objects, src) == [ref |-> src, objects |-> objects]

\* tmplEl.content.cloneNode(true): a new fragment object, a deep copy of the
\* content; the reference to it and the store that holds it
cloneNode(objects, src) ==
    [ref |-> "tmpl", objects |-> [objects EXCEPT !["tmpl"] = objects[src]]]

\* querySelector("[data-s-slot]"): the path (child indices from the root) of
\* the first element in document order that carries the attribute; the empty
\* path is null
NullSlot == <<>>

RECURSIVE FindSlot(_, _)
FindSlot(nodes, i) ==
    IF i > Len(nodes) THEN NullSlot
    ELSE IF IsElement(nodes[i]) /\ nodes[i].sSlot # Undefined THEN <<i>>
    ELSE LET inner == FindSlot(nodes[i].childNodes, 1)
         IN IF inner # NullSlot THEN <<i>> \o inner
            ELSE FindSlot(nodes, i + 1)

querySelectorSlot(node) == FindSlot(node.childNodes, 1)

\* parent.prepend(s) in the place of appendChild
appendChildFirst(parent, s) ==
    [parent EXCEPT !.childNodes =
        IF s.nodeType = "fragment" THEN s.childNodes \o @ ELSE <<s>> \o @]

\* parent.appendChild(s): a fragment gives its children, any other node
\* becomes the last child itself
appendChild(parent, s) ==
    [parent EXCEPT !.childNodes =
        IF s.nodeType = "fragment" THEN @ \o s.childNodes ELSE Append(@, s)]

\* The node at a path, and the tree with the node at a path replaced
RECURSIVE NodeAt(_, _)
NodeAt(node, path) ==
    IF path = <<>> THEN node
    ELSE NodeAt(node.childNodes[Head(path)], Tail(path))

RECURSIVE ReplaceAt(_, _, _)
ReplaceAt(node, path, new) ==
    IF path = <<>> THEN new
    ELSE [node EXCEPT !.childNodes[Head(path)] = ReplaceAt(@, Tail(path), new)]

\* for (const s of sub) slot.appendChild(s)
RECURSIVE AppendAll(_, _)
AppendAll(parent, items) ==
    IF items = <<>> THEN parent
    ELSE AppendAll(appendChild(parent, Head(items)), Tail(items))

\* What the subTmpl callback returns: a falsy value, one node, or an array
Falsy == [kind |-> "falsy", items |-> <<>>]
OneNode(n) == [kind |-> "node", items |-> <<n>>]
ArrayOf(items) == [kind |-> "array", items |-> items]

\* if (Array.isArray(sub)) {...} else if (sub) {...}: the nodes handed to
\* slot.appendChild, in order
ToAppend(sub) == IF sub.kind = "falsy" THEN <<>> ELSE sub.items

\* slot.appendChild reached with nothing to append (an unguarded call)
appendThrowsOnNull(slotPath, items) == slotPath = NullSlot

\* slot.appendChild(...) with slot null is a TypeError: it is reached when
\* there is something to append
appendThrows(slotPath, items) == items # <<>> /\ slotPath = NullSlot


\* ------------------------------------------------------------------ inputs
\* State keys: a plain key, a second plain key, and a key that holds the
\* characters "$ctx." in its middle
Keys == {<<"a">>, <<"a", "b">>, <<"a", Ctx, "b">>}
Values == {EmptyStr, <<"x">>}

\* The state objects: every key is unset, the empty string or "x"
States == UNION {[D -> Values] : D \in SUBSET Keys}

Bangs(n) == [i \in 1..n |-> Bang]

\* data-s-show values: negation markers and the $ctx. marker in either order
ShowExprs ==
    UNION {{Bangs(n) \o k, <<Ctx>> \o Bangs(n) \o k, Bangs(n) \o <<Ctx>> \o k} :
           n \in 0..MaxNeg, k \in Keys}

\* data-s-text values
TextExprs == Keys \cup {<<Ctx>> \o k : k \in Keys}

AttrNames == {<<"src">>, StyleName}
AttrExprs == {<<"a">>, <<Ctx, "a", "b">>}
Pairs == {n \o <<Eq>> \o e : n \in AttrNames, e \in AttrExprs}

RECURSIVE PairLists(_)
PairLists(n) ==
    IF n = 1 THEN Pairs
    ELSE {l \o <<Comma>> \o q : l \in PairLists(n - 1), q \in Pairs}

\* Well-formed data-s-attr(s) values: 1..MaxPairs pairs
AttrValues == UNION {PairLists(n) : n \in 1..MaxPairs}

\* Other data-s-attr(s) values an author can write: a key with "$ctx." in
\* its middle, a pair without "=", a pair without a name, the empty value,
\* a pair with a second "="
OddAttrValues ==
    {<<"src", Eq, "a", Ctx, "b">>,
     <<"src">>,
     <<"src", Eq, "a", Comma, "alt">>,
     <<Eq, "a">>,
     EmptyStr,
     <<"src", Eq, "a", Eq, "b">>}

Present == EmptyStr
StaticText == TextNode(<<"t">>)
Plain == Element(Undefined, Undefined, Undefined, Undefined, Undefined, <<StaticText>>)

ShowEls == {Element(e, Undefined, Undefined, Undefined, Undefined, <<StaticText>>) :
            e \in ShowExprs}

TextEls == {Element(Undefined, e, Undefined, Undefined, Undefined, c) :
            e \in TextExprs, c \in {<<>>, <<StaticText>>}}

AttrEls ==
    {Element(Undefined, Undefined, v, Undefined, Undefined, <<>>) :
        v \in AttrValues \cup OddAttrValues}
    \cup {Element(Undefined, Undefined, Undefined, v, Undefined, <<>>) : v \in Pairs}
    \cup {Element(Undefined, Undefined, <<"src", Eq, "a">>, <<"src", Eq, "a", "b">>,
                  Undefined, <<>>),
          Element(Undefined, Undefined, EmptyStr, <<"src", Eq, "a">>, Undefined, <<>>)}

\* Elements that carry directives of several classes
MixedEls ==
    {Element(e, Undefined, <<"style", Eq, "a", "b">>, Undefined, Undefined, <<>>) :
        e \in {<<"a">>, <<Bang, "a">>}}
    \cup {Element(<<Bang, "a">>, <<"a">>, <<"src", Eq, "a">>, Undefined, Undefined, <<>>)}

\* data-s-slot elements: empty, with a child of their own, with a text
\* directive of their own
SlotEls ==
    {Element(Undefined, Undefined, Undefined, Undefined, Present, <<>>),
     Element(Undefined, Undefined, Undefined, Undefined, Present,
             <<Element(Undefined, <<"a">>, Undefined, Undefined, Undefined, <<>>)>>),
     Element(Undefined, <<"a">>, Undefined, Undefined, Present, <<StaticText>>)}

\* The elements put in front of a slot element
LeadEls ==
    {Plain,
     Element(<<"a">>, <<"a", "b">>, <<"src", Eq, "a">>, Undefined, Undefined, <<>>)}

\* Elements with a text directive and a child that carries a directive
NestedEls ==
    {Element(Undefined, <<"a">>, Undefined, Undefined, Undefined, <<c>>) :
        c \in {Element(Undefined, Undefined, <<"src">>, Undefined, Undefined, <<>>),
               Element(<<Bang, "a">>, Undefined, <<"src", Eq, "a">>, Undefined,
                       Undefined, <<>>)}}

\* The template contents (the child nodes of tmplEl.content)
Templates ==
    {<<e>> : e \in ShowEls \cup TextEls \cup AttrEls \cup MixedEls \cup SlotEls
                   \cup NestedEls \cup {Plain}}
    \cup {<<e, s>> : e \in LeadEls, s \in SlotEls}
    \cup {<<[Plain EXCEPT !.childNodes = <<s>>], s>> : s \in SlotEls}

\* What a subTmpl callback returns.  A node it returns is one it made: an
\* element (already holding its own text, with its directive attribute left
\* on it) or the fragment of a nested renderTmpl call
SubElement(id) ==
    Element(Undefined, <<"a">>, Undefined, Undefined, Undefined, <<TextNode(<<id>>)>>)

SubNodes ==
    {SubElement("n1"), SubElement("n2"),
     Fragment(<<>>),
     Fragment(<<SubElement("n3"), SubElement("n4")>>)}

\* The sequences of n distinct members of S
RECURSIVE Arrangements(_, _)
Arrangements(S, n) ==
    IF n = 0 THEN {<<>>}
    ELSE UNION {{Append(l, x) : x \in S \ {l[i] : i \in 1..Len(l)}} :
                l \in Arrangements(S, n - 1)}

SubResults ==
    {Falsy}
    \cup {OneNode(n) : n \in SubNodes}
    \cup {ArrayOf(l) : l \in UNION {Arrangements(SubNodes, n) : n \in 0..MaxSub}}

\* ------------------------------------------------------------ the program
VARIABLES
    objects,    \* the store: "tmplEl" is tmplEl.content, "tmpl" the newest clone
    pristine,   \* the template content as its author wrote it (never assigned)
    tmpl,       \* const tmpl: the reference cloneNode returned ("none" before)
    state,      \* the state argument of the call
    subTmpl,    \* whether the call was given a subTmpl callback
    subArg,     \* the arguments subTmpl was invoked with
    sub,        \* const sub: what subTmpl returned
    slot,       \* const slot: the path of the slot element, NullSlot for null
    impl,       \* which renderTmpl of the file runs: FirstRenderTmpl or SecondRenderTmpl
    pc,         \* "idle", "subTmpl" (inside the callback), "returned", "threw"
    log,        \* what the call has done so far, in order
    earlier     \* how the call before this one ended ("none" for the first)

vars == <<objects, pristine, tmpl, state, subTmpl, subArg, sub, slot, impl, pc,
          log, earlier>>

\* The file defines renderTmpl twice.  The first looks the slot up and warns
\* after subTmpl has returned, the second before it invokes subTmpl
FirstRenderTmpl == 1
SecondRenderTmpl == 2

NoArg == [tmpl |-> Fragment(<<>>), state |-> <<>>, given |-> FALSE]
Warning == "warn"

Init ==
    /\ pristine \in Templates
    /\ objects = [tmplEl |-> Fragment(pristine), tmpl |-> Fragment(<<>>)]
    /\ tmpl = "none"
    /\ state = <<>>
    /\ subTmpl = FALSE
    /\ subArg = NoArg
    /\ sub = Falsy
    /\ slot = NullSlot
    /\ impl = SecondRenderTmpl
    /\ pc = "idle"
    /\ log = <<>>
    /\ earlier = "none"

\* replaceStateDirectives run once more after the children are attached
attachChildrenThenResolve(node, slotPath, items) ==
    IF items = <<>> THEN node
    ELSE replaceStateDirectives(
            ReplaceAt(node, slotPath, AppendAll(NodeAt(node, slotPath), items)),
            state).node

\* The appendChild calls of renderTmpl on the clone
attachChildren(node, slotPath, items) ==
    IF items = <<>> THEN node
    ELSE ReplaceAt(node, slotPath, AppendAll(NodeAt(node, slotPath), items))

\* renderTmpl without the console.warn call
WarnNever(s) == <<>>

\* if (!slot) console.warn(...)
WarnIfNull(s) == IF s = NullSlot THEN <<Warning>> ELSE <<>>

\* renderTmpl(tmplEl, state, subTmpl) from its first line to its return, to
\* its throw, or to the point where it invokes subTmpl(tmpl, state)
renderTmpl(i, st, given) ==
    /\ pc = "idle"
    /\ LET c == cloneNode(objects, "tmplEl")
           r == replaceStateDirectives(c.objects[c.ref], st)
           resolved == [c.objects EXCEPT ![c.ref] = r.node]
           found == querySelectorSlot(r.node)
       IN /\ objects' = resolved
          /\ tmpl' = c.ref
          /\ state' = st
          /\ impl' = i
          /\ subTmpl' = given
          /\ sub' = Falsy
          /\ IF r.threw
             THEN /\ pc' = "threw"
                  /\ log' = <<"throw">>
                  /\ slot' = NullSlot
                  /\ subArg' = NoArg
             ELSE IF ~given
             THEN /\ pc' = "returned"
                  /\ log' = <<"resolve", "return">>
                  /\ slot' = NullSlot
                  /\ subArg' = NoArg
             ELSE /\ pc' = "subTmpl"
                  /\ subArg' = [tmpl |-> r.node, state |-> st, given |-> TRUE]
                  /\ IF i = FirstRenderTmpl
                     THEN /\ slot' = NullSlot
                          /\ log' = <<"resolve", "subTmpl">>
                     ELSE /\ slot' = found
                          /\ log' = <<"resolve">> \o WarnIfNull(found) \o <<"subTmpl">>
    /\ UNCHANGED <<pristine, earlier>>

\* The rest of renderTmpl once subTmpl has returned v: (in the first
\* renderTmpl: the slot lookup and the warning,) the appendChild calls, the
\* return.  null.appendChild is a TypeError
subTmplReturns(v) ==
    /\ pc = "subTmpl"
    /\ LET s == IF impl = FirstRenderTmpl THEN querySelectorSlot(objects[tmpl]) ELSE slot
           warned == IF impl = FirstRenderTmpl THEN log \o <<"sub">> \o WarnIfNull(s)
                     ELSE log \o <<"sub">>
           items == ToAppend(v)
       IN /\ sub' = v
          /\ slot' = s
          /\ IF appendThrows(s, items)
             THEN /\ pc' = "threw"
                  /\ log' = warned \o <<"throw">>
                  /\ UNCHANGED objects
             ELSE /\ pc' = "returned"
                  /\ log' = warned \o [k \in 1..Len(items) |-> "appendChild"] \o <<"return">>
                  /\ objects' = [objects EXCEPT ![tmpl] = attachChildren(@, s, items)]
    /\ UNCHANGED <<pristine, tmpl, state, subTmpl, subArg, impl, earlier>>

\* subTmpl throws: renderTmpl ends with that exception
subTmplThrows ==
    /\ pc = "subTmpl"
    /\ pc' = "threw"
    /\ log' = log \o <<"throw">>
    /\ UNCHANGED <<objects, pristine, tmpl, state, subTmpl, subArg, sub, slot, impl,
                   earlier>>

\* The call is over: its constants go out of scope and the caller owns what
\* was returned; the program holds nothing but the template
callEnds ==
    /\ pc \in {"returned", "threw"}
    /\ pc' = "idle"
    /\ objects' = [objects EXCEPT !["tmpl"] = Fragment(<<>>)]
    /\ tmpl' = "none"
    /\ state' = <<>>
    /\ subTmpl' = FALSE
    /\ subArg' = NoArg
    /\ sub' = Falsy
    /\ slot' = NullSlot
    /\ impl' = SecondRenderTmpl
    /\ log' = <<>>
    /\ earlier' = pc
    /\ UNCHANGED pristine

Call == \E i \in {FirstRenderTmpl, SecondRenderTmpl}, st \in States, given \in BOOLEAN : renderTmpl(i, st, given)
Return == \E v \in SubResults : subTmplReturns(v)

Next == Call \/ Return \/ subTmplThrows \/ callEnds

Spec == Init /\ [][Next]_vars

\* --------------------------------------------------- reading the fragments
\* The paths of the elements of a tree, in any order
RECURSIVE ElementPathsOf(_)
ElementPathsOf(nodes) ==
    UNION {IF IsElement(nodes[i])
           THEN {<<i>>} \cup {<<i>> \o q : q \in ElementPathsOf(nodes[i].childNodes)}
           ELSE {} : i \in 1..Len(nodes)}

\* The template as written, and the fragment the call works on
Authored == Fragment(pristine)
Clone == objects[tmpl]

\* The elements the author wrote that are still in the clone
Written == ElementPathsOf(pristine) \cap ElementPathsOf(Clone.childNodes)

Returned == pc = "returned"

\* String(state[key]): what reaches an attribute
AttrText(st, key) == IF key \in DOMAIN st THEN st[key] ELSE UndefinedText

\* The keys that do not hold the characters "$ctx."
PlainKeys == {k \in Keys : IndexOf(k, Ctx) = 0}

\* Elements that carry one directive class only and are not the slot
OnlyShow(el) ==
    el.sText = Undefined /\ el.sAttr = Undefined /\ el.sAttrs = Undefined
OnlyText(el) ==
    el.sShow = Undefined /\ el.sAttr = Undefined /\ el.sAttrs = Undefined
    /\ el.sSlot = Undefined

\* ----------------------------------------------------------------- claims
\* C1: an element whose data-s-show value is n negation markers followed by
\* a bare key k ends visible (display "") exactly when the truthiness of
\* state[k] XOR (n is odd), and hidden (display "none") otherwise, for every
\* n >= 0.  Stated for the elements whose only directive is data-s-show.
C1_ShowParity ==
    Returned =>
        \A p \in Written : \A n \in 0..MaxNeg, k \in Keys :
            LET el == NodeAt(Authored, p)
                visible == Truthy(Lookup(state, k)) # (n % 2 = 1)
            IN (el.sShow = Bangs(n) \o k /\ OnlyShow(el)) =>
                  NodeAt(Clone, p).display = (IF visible THEN EmptyStr ELSE None)

\* The same statement for the keys that do not hold "$ctx."
ShowParityOfPlainKeys ==
    Returned =>
        \A p \in Written : \A n \in 0..MaxNeg, k \in PlainKeys :
            LET el == NodeAt(Authored, p)
                visible == Truthy(Lookup(state, k)) # (n % 2 = 1)
            IN (el.sShow = Bangs(n) \o k /\ OnlyShow(el)) =>
                  NodeAt(Clone, p).display = (IF visible THEN EmptyStr ELSE None)

\* C2: an element whose data-s-text value is k has, when the state holds
\* k -> v, the text content v after renderTmpl, the empty string included.
\* Stated for the elements whose only directive is data-s-text.
C2_TextIsValue ==
    Returned =>
        \A p \in Written : \A k \in Keys :
            LET el == NodeAt(Authored, p)
            IN (el.sText = k /\ OnlyText(el) /\ k \in DOMAIN state) =>
                  TextContent(NodeAt(Clone, p)) = state[k]

TextIsValueOfPlainKeys ==
    Returned =>
        \A p \in Written : \A k \in PlainKeys :
            LET el == NodeAt(Authored, p)
            IN (el.sText = k /\ OnlyText(el) /\ k \in DOMAIN state) =>
                  TextContent(NodeAt(Clone, p)) = state[k]

\* A data-s-attr(s) value as the list of its pairs, written left to right
PairRecords == [name : AttrNames, expr : AttrExprs \cup Keys]

RECURSIVE RecordLists(_)
RecordLists(n) ==
    IF n = 0 THEN {<<>>}
    ELSE {Append(l, r) : l \in RecordLists(n - 1), r \in PairRecords}

RECURSIVE Joined(_)
Joined(l) ==
    IF Len(l) = 1 THEN l[1].name \o <<Eq>> \o l[1].expr
    ELSE Joined(SubSeq(l, 1, Len(l) - 1)) \o <<Comma>>
         \o l[Len(l)].name \o <<Eq>> \o l[Len(l)].expr

\* The key of an expression: the expression without its "$ctx." prefix
KeyOf(expr) == IF expr # <<>> /\ Head(expr) = Ctx THEN Tail(expr) ELSE expr

\* The element carries the value as its one data-s-attr or data-s-attrs
CarriesAttr(el, value) ==
    \/ el.sAttr = value /\ el.sAttrs = Undefined
    \/ el.sAttrs = value /\ el.sAttr = Undefined

\* C3: for a data-s-attr(s) value that is a comma-separated list of
\* name=expression pairs, each named attribute holds after renderTmpl the
\* state value of the key of its expression; pairs are applied left to
\* right, so the last pair that names an attribute decides its value.
C3_AttrPairs ==
    Returned =>
        \A p \in Written : \A n \in 1..MaxPairs : \A l \in RecordLists(n) :
            CarriesAttr(NodeAt(Authored, p), Joined(l)) =>
                \A i \in 1..n :
                    (\A j \in (i + 1)..n : l[j].name # l[i].name) =>
                        /\ l[i].name \in DOMAIN NodeAt(Clone, p).attributes
                        /\ NodeAt(Clone, p).attributes[l[i].name]
                              = AttrText(state, KeyOf(l[i].expr))

AttrPairsOfPlainKeys ==
    Returned =>
        \A p \in Written : \A n \in 1..MaxPairs : \A l \in RecordLists(n) :
            (/\ CarriesAttr(NodeAt(Authored, p), Joined(l))
             /\ \A i \in 1..n : KeyOf(l[i].expr) \in PlainKeys) =>
                \A i \in 1..n :
                    (\A j \in (i + 1)..n : l[j].name # l[i].name) =>
                        /\ l[i].name \in DOMAIN NodeAt(Clone, p).attributes
                        /\ NodeAt(Clone, p).attributes[l[i].name]
                              = AttrText(state, KeyOf(l[i].expr))

\* What renderTmpl makes of a template that holds the one element el
Alone(el, st) == replaceStateDirectives(Fragment(<<el>>), st).node.childNodes[1]

\* C4: the "$ctx." prefix is transparent: a text, attr/attrs or show
\* directive whose expression is "$ctx." followed by k gives the element
\* that the same directive with the expression k gives, for every key k.
\* The two elements are compared without the directive attribute itself.
C4_PrefixTransparent ==
    Returned =>
        \A p \in Written : \A k \in Keys :
            LET el == NodeAt(Authored, p)
                got == NodeAt(Clone, p)
            IN /\ (el.sText = <<Ctx>> \o k /\ OnlyText(el)) =>
                    [got EXCEPT !.sText = k] = Alone([el EXCEPT !.sText = k], state)
               /\ (el.sShow = <<Ctx>> \o k /\ OnlyShow(el) /\ el.sSlot = Undefined) =>
                    [got EXCEPT !.sShow = k] = Alone([el EXCEPT !.sShow = k], state)
               /\ \A name \in AttrNames :
                    (el.sAttr = name \o <<Eq, Ctx>> \o k /\ el.sShow = Undefined
                     /\ el.sText = Undefined /\ el.sAttrs = Undefined
                     /\ el.sSlot = Undefined) =>
                        [got EXCEPT !.sAttr = name \o <<Eq>> \o k]
                            = Alone([el EXCEPT !.sAttr = name \o <<Eq>> \o k], state)

PrefixTransparentOfPlainKeys ==
    Returned =>
        \A p \in Written : \A k \in PlainKeys :
            LET el == NodeAt(Authored, p)
                got == NodeAt(Clone, p)
            IN /\ (el.sText = <<Ctx>> \o k /\ OnlyText(el)) =>
                    [got EXCEPT !.sText = k] = Alone([el EXCEPT !.sText = k], state)
               /\ (el.sShow = <<Ctx>> \o k /\ OnlyShow(el) /\ el.sSlot = Undefined) =>
                    [got EXCEPT !.sShow = k] = Alone([el EXCEPT !.sShow = k], state)
               /\ \A name \in AttrNames :
                    (el.sAttr = name \o <<Eq, Ctx>> \o k /\ el.sShow = Undefined
                     /\ el.sText = Undefined /\ el.sAttrs = Undefined
                     /\ el.sSlot = Undefined) =>
                        [got EXCEPT !.sAttr = name \o <<Eq>> \o k]
                            = Alone([el EXCEPT !.sAttr = name \o <<Eq>> \o k], state)

\* ----------------------------------------------------- reading the call
\* The positions of an event in the log
At_(event) == {i \in 1..Len(log) : log[i] = event}
Did(event) == At_(event) # {}

\* The call is over
Over == pc \in {"returned", "threw"}

\* subTmpl was invoked and has returned
SubReturned == Did("sub")

\* No element of the fragment carries data-s-slot
NoSlotIn(node) ==
    \A p \in ElementPathsOf(node.childNodes) : NodeAt(node, p).sSlot = Undefined

\* The child nodes the returned items stand for: a fragment stands for its
\* children
RECURSIVE Flat(_)
Flat(items) ==
    IF items = <<>> THEN <<>>
    ELSE (IF Head(items).nodeType = "fragment" THEN Head(items).childNodes
          ELSE <<Head(items)>>) \o Flat(Tail(items))

\* The children the slot element had when subTmpl was invoked
SlotBefore == NodeAt(subArg.tmpl, slot).childNodes
SlotAfter == NodeAt(Clone, slot).childNodes

\* C5 as claimed: with a slot element in the clone, the children of the slot
\* are after the call its earlier children followed by exactly the returned
\* items (the N items of an array, or the one returned node), in order.
C5_ItemsAreChildren ==
    (Returned /\ SubReturned /\ slot # NullSlot /\ sub.kind # "falsy") =>
        SlotAfter = SlotBefore \o sub.items

\* C5 amended: with a slot element in the clone, the children of the slot
\* are after the call its earlier children followed by what the returned
\* items stand for, in array order: an item that is a DocumentFragment
\* stands for its child nodes, any other item for itself.
C5_AppendedInOrder ==
    (Returned /\ SubReturned /\ slot # NullSlot /\ sub.kind # "falsy") =>
        /\ SlotAfter = SlotBefore \o Flat(sub.items)
        /\ Cardinality(At_("appendChild")) = Len(sub.items)

C5_Witness ==
    /\ Returned /\ SubReturned /\ slot # NullSlot
    /\ sub.kind = "array" /\ Len(sub.items) = 2
    /\ sub.items[1].nodeType = "fragment" /\ Len(sub.items[1].childNodes) = 2
    /\ sub.items[2].nodeType = "element"
    /\ SlotBefore # <<>>
    /\ Len(SlotAfter) = Len(SlotBefore) + 3

\* C6: a call with a subTmpl callback on a template whose clone has no slot
\* element, where the callback returns a node or a non-empty array, ends by
\* throwing (it returns no fragment), and the warning was emitted before.
C6_NoSlotThrows ==
    (/\ Over /\ SubReturned /\ NoSlotIn(subArg.tmpl)
     /\ (sub.kind = "node" \/ (sub.kind = "array" /\ sub.items # <<>>))) =>
        /\ pc = "threw"
        /\ log[Len(log)] = "throw"
        /\ ~Did("return")
        /\ \E i \in At_(Warning) : i < Len(log)

C6_Witness ==
    /\ pc = "threw" /\ SubReturned /\ NoSlotIn(subArg.tmpl)
    /\ sub.kind = "array" /\ Len(sub.items) = 2
    /\ Did(Warning)

\* What one call on the template as written gives: the resolved clone with
\* the children attached
Expected ==
    LET r == replaceStateDirectives(Authored, state).node
    IN IF SubReturned /\ ToAppend(sub) # <<>>
       THEN ReplaceAt(r, querySelectorSlot(r),
                      [NodeAt(r, querySelectorSlot(r)) EXCEPT
                          !.childNodes = @ \o Flat(sub.items)])
       ELSE r

\* C7: after any sequence of calls on the same template (any states, with
\* or without subTmpl, returning or throwing) the content of the template is
\* as its author wrote it, and the fragment a call returns is the one a
\* single call with its arguments on the untouched template returns.
C7_TemplateUntouched ==
    /\ objects["tmplEl"] = Authored
    /\ Returned => (tmpl # "tmplEl" /\ Clone = Expected)

C7_Witness ==
    /\ Returned /\ earlier = "threw"
    /\ state # <<>>
    /\ Clone # Authored

\* C8: in a call with a subTmpl callback the directives of the clone are
\* resolved before the callback is invoked and before any child is attached;
\* the callback is invoked once, with the resolved clone and the state of
\* the call; the nodes it returns are attached as returned, not resolved
\* against the state of the call.
C8_ResolveThenSubTmpl ==
    Did("subTmpl") =>
        /\ Cardinality(At_("subTmpl")) = 1
        /\ Cardinality(At_("resolve")) = 1
        /\ \A i \in At_("resolve"), j \in At_("subTmpl") : i < j
        /\ \A j \in At_("subTmpl"), k \in At_("appendChild") : j < k
        /\ subArg.given
        /\ subArg.state = state
        /\ subArg.tmpl = replaceStateDirectives(Authored, state).node
        /\ pc = "subTmpl" => Clone = subArg.tmpl
        /\ (Returned /\ slot # NullSlot) =>
              SubSeq(SlotAfter, Len(SlotBefore) + 1, Len(SlotAfter)) = Flat(sub.items)

\* A returned element that the state of the call would change is in the slot
C8_Witness ==
    /\ Returned /\ SubReturned /\ slot # NullSlot
    /\ sub.kind = "node" /\ sub.items[1].nodeType = "element"
    /\ Alone(sub.items[1], state) # sub.items[1]
    /\ SlotAfter[Len(SlotAfter)] = sub.items[1]
    /\ Authored # subArg.tmpl

\* C9: a call with a subTmpl callback on a template whose clone has no slot
\* element, where the callback returns a falsy value or an empty array, does
\* not fail: it emits the warning, appends nothing and returns the resolved
\* clone.
C9_NoSlotNothingToAppend ==
    (/\ Over /\ SubReturned /\ NoSlotIn(subArg.tmpl)
     /\ (sub.kind = "falsy" \/ (sub.kind = "array" /\ sub.items = <<>>))) =>
        /\ pc = "returned"
        /\ Cardinality(At_(Warning)) = 1
        /\ ~Did("appendChild")
        /\ Clone = subArg.tmpl

C9_Witness ==
    /\ Returned /\ SubReturned /\ NoSlotIn(subArg.tmpl)
    /\ sub.kind = "array" /\ sub.items = <<>>
    /\ Did(Warning)
    /\ Clone # Authored

\* The six orders of the three directive classes
Orders ==
    {o \in [1..3 -> {"show", "text", "attr"}] : \A i, j \in 1..3 : o[i] = o[j] => i = j}

\* The call has just resolved its clone without throwing: it has returned
\* without a callback, or is inside the callback; the clone as resolved
Resolved == (Returned /\ ~subArg.given) \/ pc = "subTmpl"
ResolvedClone == Clone

\* The call threw while resolving
ResolveThrew == pc = "threw" /\ log = <<"throw">>

InOrder(o) ==
    ResolveInOrder(o, [threw |-> FALSE, nodes |-> pristine], state)

\* C10 as claimed: the order in which the directive classes are processed
\* does not change the result: every order of show, text and attr/attrs
\* gives the fragment renderTmpl gives.
C10_AnyOrder ==
    Resolved =>
        \A o \in Orders :
            InOrder(o) = [threw |-> FALSE, nodes |-> ResolvedClone.childNodes]

\* The attribute names the data-s-attr(s) value of an element writes
NamesWritten(el) ==
    LET value == OrElse(el.sAttr, el.sAttrs)
    IN IF value = Undefined THEN {}
       ELSE {At(Split(q, Eq), 1) : q \in {At(Split(value, Comma), i) :
                                          i \in 1..Len(Split(value, Comma))}}

\* An element with a show directive has an attr/attrs pair that names style
StyleCollision ==
    \E p \in ElementPathsOf(pristine) :
        LET el == NodeAt(Authored, p)
        IN el.sShow # Undefined /\ StyleName \in NamesWritten(el)

\* Every data-s-attr(s) value of the template is a list of name=expression
\* pairs with a valid attribute name
PairsWellFormed ==
    \A p \in ElementPathsOf(pristine) :
        LET el == NodeAt(Authored, p)
            value == OrElse(el.sAttr, el.sAttrs)
        IN (el.sAttr # Undefined \/ el.sAttrs # Undefined) =>
              /\ value # Undefined
              /\ \A i \in 1..Len(Split(value, Comma)) :
                    LET parts == Split(Split(value, Comma)[i], Eq)
                    IN Len(parts) >= 2 /\ ValidName(parts[1])

\* C10 amended: the order in which the directive classes are processed does
\* not change the result for a template whose attr/attrs values are lists
\* of name=expression pairs, provided no element that carries a show
\* directive has a pair that names the style attribute (the attribute the
\* show directive writes through el.style).
C10_AnyOrderWithoutStyle ==
    (~StyleCollision /\ PairsWellFormed) =>
        /\ ~ResolveThrew
        /\ Resolved =>
              \A o \in Orders :
                  InOrder(o) = [threw |-> FALSE, nodes |-> ResolvedClone.childNodes]

\* One element with a directive of each class, all three of which acted
C10_Witness ==
    /\ Returned /\ ~subArg.given /\ ~StyleCollision /\ PairsWellFormed
    /\ \E p \in Written :
          LET el == NodeAt(Authored, p)
              got == NodeAt(Clone, p)
          IN /\ el.sShow # Undefined /\ el.sText # Undefined /\ el.sAttr # Undefined
             /\ got.display = None
             /\ got.childNodes # el.childNodes
             /\ <<"src">> \in DOMAIN got.attributes

\* The pairs of the data-s-attr(s) value the code reads on an element
PairsOf(el) ==
    LET value == OrElse(el.sAttr, el.sAttrs)
    IN IF value = Undefined THEN <<>> ELSE Split(value, Comma)

CarriesAttrDirective(el) == el.sAttr # Undefined \/ el.sAttrs # Undefined

\* A pair without "=" whose text is a valid attribute name (src in "src")
LacksEq(q) == Len(Split(q, Eq)) < 2 /\ ValidName(q)

\* The malformed values of the template are pairs without "=" and nothing
\* else: every other pair is name=expression with a valid name
OnlyPairsWithoutEq ==
    /\ \A p \in ElementPathsOf(pristine) :
          LET el == NodeAt(Authored, p)
          IN CarriesAttrDirective(el) =>
                /\ OrElse(el.sAttr, el.sAttrs) # Undefined
                /\ \A i \in 1..Len(PairsOf(el)) :
                      ValidName(At(Split(PairsOf(el)[i], Eq), 1))
    /\ \E p \in ElementPathsOf(pristine) :
          \E i \in 1..Len(PairsOf(NodeAt(Authored, p))) :
              LacksEq(PairsOf(NodeAt(Authored, p))[i])

\* C11: a malformed attr/attrs value (a pair with no "=") is not an error:
\* renderTmpl still completes and returns the fragment, with the affected
\* attribute (the one the pair names) set to an undefined/garbage value.
C11_MalformedCompletes ==
    OnlyPairsWithoutEq =>
        /\ ~ResolveThrew
        /\ Resolved =>
              \A p \in Written :
                  \A i \in 1..Len(PairsOf(NodeAt(Authored, p))) :
                      LET q == PairsOf(NodeAt(Authored, p))[i]
                      IN LacksEq(q) => q \in DOMAIN NodeAt(Clone, p).attributes

\* The element is below an element that carries a text directive: the text
\* pass removes it from the fragment before the attr pass selects
BelowText(p) ==
    \E n \in 1..(Len(p) - 1) : NodeAt(Authored, SubSeq(p, 1, n)).sText # Undefined

\* What the code does with a pair: it throws on a pair without "="
\* (clearPrefix(undefined)) and on a name setAttribute rejects
PairThrows(q) ==
    Len(Split(q, Eq)) < 2 \/ ~ValidName(At(Split(q, Eq), 1))

SomePairThrows ==
    \E p \in ElementPathsOf(pristine) :
        LET el == NodeAt(Authored, p)
        IN /\ CarriesAttrDirective(el)
           /\ ~BelowText(p)
           /\ \/ OrElse(el.sAttr, el.sAttrs) = Undefined
              \/ \E i \in 1..Len(PairsOf(el)) : PairThrows(PairsOf(el)[i])

\* The code on malformed values: a call throws while resolving exactly when
\* the attr pass reaches a pair without "=" or without a valid name; a pair
\* with a second "=" is read as its first two pieces
MalformedPairThrows ==
    pc # "idle" => (ResolveThrew <=> SomePairThrows)

\* The pairs of an element that decide an attribute: name=expression with
\* no later pair of the same name
Deciding(el) ==
    {i \in 1..Len(PairsOf(el)) :
        /\ Len(Split(PairsOf(el)[i], Eq)) = 2
        /\ \A j \in (i + 1)..Len(PairsOf(el)) :
              At(Split(PairsOf(el)[j], Eq), 1) # At(Split(PairsOf(el)[i], Eq), 1)}

NameOfPair(q) == At(Split(q, Eq), 1)
ExprOfPair(q) == At(Split(q, Eq), 2)

\* C12: a state key that is missing is never an error: for every text
\* directive and every attr/attrs pair whose key is absent from the state,
\* renderTmpl completes and the element's text content, respectively the
\* named attribute, is the sentinel string "undefined".
C12_MissingKeyIsUndefined ==
    PairsWellFormed =>
        /\ ~ResolveThrew
        /\ Resolved =>
              \A p \in Written :
                  LET el == NodeAt(Authored, p)
                      got == NodeAt(Clone, p)
                  IN /\ (el.sText # Undefined /\ KeyOf(el.sText) \notin DOMAIN state) =>
                            TextContent(got) = UndefinedText
                     /\ \A i \in Deciding(el) :
                            KeyOf(ExprOfPair(PairsOf(el)[i])) \notin DOMAIN state =>
                                /\ NameOfPair(PairsOf(el)[i]) \in DOMAIN got.attributes
                                /\ got.attributes[NameOfPair(PairsOf(el)[i])] = UndefinedText

\* The code on a missing key: no throw; the attribute is the string
\* "undefined" (setAttribute converts its argument to a string) and the text
\* content is empty (textContent = undefined removes the children and adds
\* nothing).  The key is the one the code looks up: clearPrefix of the
\* expression
MissingKeyBlankText ==
    PairsWellFormed =>
        /\ ~ResolveThrew
        /\ Resolved =>
              \A p \in Written :
                  LET el == NodeAt(Authored, p)
                      got == NodeAt(Clone, p)
                  IN /\ (el.sText # Undefined /\ clearPrefix(el.sText) \notin DOMAIN state) =>
                            /\ TextContent(got) = EmptyStr
                            /\ got.childNodes = <<>>
                     /\ \A i \in Deciding(el) :
                            clearPrefix(ExprOfPair(PairsOf(el)[i])) \notin DOMAIN state =>
                                /\ NameOfPair(PairsOf(el)[i]) \in DOMAIN got.attributes
                                /\ got.attributes[NameOfPair(PairsOf(el)[i])] = UndefinedText

\* The attribute half of C12 alone, for the expressions that hold no "$ctx."
\* past their prefix
MissingKeyUndefinedAttr ==
    (PairsWellFormed /\ Resolved) =>
        \A p \in Written :
            LET el == NodeAt(Authored, p)
                got == NodeAt(Clone, p)
            IN \A i \in Deciding(el) :
                  LET key == KeyOf(ExprOfPair(PairsOf(el)[i]))
                  IN (key \notin DOMAIN state /\ IndexOf(key, Ctx) = 0) =>
                        /\ NameOfPair(PairsOf(el)[i]) \in DOMAIN got.attributes
                        /\ got.attributes[NameOfPair(PairsOf(el)[i])] = UndefinedText

\* The text half of C12 alone
MissingKeyUndefinedText ==
    Resolved =>
        \A p \in Written :
            LET el == NodeAt(Authored, p)
            IN (el.sText # Undefined /\ KeyOf(el.sText) \notin DOMAIN state
                /\ IndexOf(KeyOf(el.sText), Ctx) = 0) =>
                  TextContent(NodeAt(Clone, p)) = UndefinedText

====
